---- MODULE Spec2Model ----
(***************************************************************************)
(* krest (examples/krest.py): a password-gated, read-only REST reader on   *)
(* top of kule.  One request is served per step; the store is the MongoDB  *)
(* database "config", one collection per environment name.                 *)
(***************************************************************************)
EXTENDS Integers, Sequences, FiniteSets, TLC

\* The fields of the records below; every record lists its fields in this
\* order.
FieldDoc ==
  [ _id |-> "internal identifier of a stored document",
    app |-> "application name of a document or a request",
    body |-> "body of a response",
    ctx |-> "request context",
    ctype |-> "content type of a body",
    d |-> "document",
    e |-> "environment",
    env |-> "environment of a document or a request",
    error |-> "numeric code of an error body",
    exc |-> "exception raised",
    fields |-> "fields of a JSON object",
    handle |-> "collection handle",
    items |-> "items of a JSON array",
    json |-> "JSON value",
    key |-> "query parameter key",
    log |-> "calls made while serving",
    route |-> "list or detail",
    s |-> "store",
    status |-> "HTTP status",
    store |-> "database contents",
    text |-> "message of an error",
    type |-> "kind of a value",
    verb |-> "HTTP verb",
    x |-> "a configuration field" ]

VARIABLES store, req, resp, log

vars == <<store, req, resp, log>>

\* ------------------------------------------------------------- bounds
\* Largest number of documents in the whole database.
MaxDocs == 2

\* ------------------------------------------------------ program constants
\* MASTER_PASS = open(PASSWORD_FILE).read().strip()
MASTER_PASS == "mypass"

\* Krest.__init__: collections=['dev', 'test', 'prod']
collections == {"dev", "test", "prod"}

\* ------------------------------------------------------------ input sets
\* Environment segments a client may send: the permitted ones and one more.
EnvNames == collections \cup {"staging"}

\* Application segments a client may send.
AppNames == {"a", "b"}

\* An optional value (Python None) is a sequence of length 0 or 1.
None == <<>>
Some(v) == <<v>>

\* The `key` query parameter: absent, the secret, or another string.
Keys == {None, Some(MASTER_PASS), Some("wrong")}

\* Internal identifiers, unique inside a collection.
Ids == {"id1", "id2"}

\* Stored documents: with and without `app`, with and without a stored `env`.
DocsOf(id) ==
  { [_id |-> id, app |-> "a", x |-> "1"],
    [_id |-> id, app |-> "a", env |-> "old", x |-> "2"],
    [_id |-> id, app |-> "b"],
    [_id |-> id, x |-> "1"] }

Docs == UNION {DocsOf(id) : id \in Ids}

EmptyStore == [e \in EnvNames |-> <<>>]

\* Every database of at most n documents; at most one document per _id in a
\* collection, in every storage order.
RECURSIVE StoresUpTo(_)
StoresUpTo(n) ==
  IF n = 0 THEN {EmptyStore}
  ELSE LET S == StoresUpTo(n - 1)
           Fits == { t \in [d : Docs, e : EnvNames, s : S] :
                       \A i \in 1..Len(t.s[t.e]) : t.s[t.e][i]._id # t.d._id }
       IN S \cup { [t.s EXCEPT ![t.e] = Append(@, t.d)] : t \in Fits }

Stores == StoresUpTo(MaxDocs)

\* ------------------------------------------------------- Python dict ops
EmptyDict == [f \in {} |-> ""]

\* d.get(k, default)
DictGet(d, k, default) == IF k \in DOMAIN d THEN d[k] ELSE default

\* d.pop(k, None)
DictPop(d, k) == [f \in DOMAIN d \ {k} |-> d[f]]

\* d.update(k=v)
DictUpdate(d, k, v) == [f \in DOMAIN d \cup {k} |-> IF f = k THEN v ELSE d[f]]

\* truth value of a dict
Truthy(d) == DOMAIN d # {}

\* ------------------------------------------------------------ rendering
PyList(items) == [items |-> items, type |-> "array"]
PyDict(fields) == [fields |-> fields, type |-> "object"]

\* kule.helpers.jsonify: the JSON rendering of obj, served as JSON.
jsonify(obj) == [ctype |-> "application/json", json |-> obj]

\* error404(error=None)
error404(error) ==
  jsonify(PyDict([error |-> 404,
                  text |-> IF error # None THEN error[1] ELSE "Nothing here"]))

\* error401(error=None)
error401(error) == jsonify(PyDict([error |-> 401, text |-> "Unauthorized"]))

\* ------------------------------------------------------ request context
\* ctx: the store, the request's query parameter `key`, the calls made so far.
Ctx(st, key) == [key |-> key, log |-> <<>>, store |-> st]

Logged(ctx, event) == [ctx EXCEPT !.log = Append(@, event)]

\* A handler that returns a value: bottle answers 200 with it.
Return(ctx, body) ==
  [body |-> body, log |-> ctx.log, status |-> 200, store |-> ctx.store]

\* bottle.abort(code, text): raises HTTPError(code, text).
abort(ctx, code, text) ==
  [body |-> [text |-> text, type |-> "HTTPError"],
   log |-> ctx.log, status |-> code, store |-> ctx.store]

\* A call whose arguments do not fit the signature raises TypeError, which
\* bottle answers as an unhandled exception.
TypeError(ctx) ==
  [body |-> [exc |-> "TypeError", type |-> "exception"],
   log |-> ctx.log, status |-> 500, store |-> ctx.store]

\* ------------------------------------------------------------- storage
\* collection.find({}): every document, in storage order.
find(st, handle) == st[handle]

\* collection.find_one({"app": app_name}): the first match, or None.
find_one(st, handle, app_name) ==
  LET c == st[handle]
      m == {i \in 1..Len(c) : "app" \in DOMAIN c[i] /\ c[i].app = app_name}
  IN IF m = {} THEN None
     ELSE Some(c[CHOOSE i \in m : \A j \in m : i <= j])

\* ------------------------------------------------------------ ReadOnly
\* patch_detail as a write handler: it empties the collection.
patch_detail_updates(ctx, args) ==
  IF Len(args) # 2 THEN TypeError(ctx)
  ELSE Return([ctx EXCEPT !.store[args[1]] = <<>>], jsonify(PyDict(EmptyDict)))

\* def patch_detail(self, collection, pk)
patch_detail(ctx, args) ==
  IF Len(args) # 2 THEN TypeError(ctx)
  ELSE abort(ctx, 500, "not implemented")

\* put_detail = delete_detail = post_list = patch_detail
put_detail(ctx, args) == patch_detail(ctx, args)
delete_detail(ctx, args) == patch_detail(ctx, args)
post_list(ctx, args) == patch_detail(ctx, args)

\* --------------------------------------------------------------- Krest
\* get_collection: the result of error404 is dropped, and the collection of
\* that name is returned in either case.
get_collection(ctx, collection) ==
  LET c0 == Logged(ctx, <<"get_collection", collection>>)
      c1 == IF collections # {} /\ collection \notin collections
            THEN Logged(c0, <<"error404", "invalid environment">>)
            ELSE c0
  IN [ctx |-> Logged(c1, <<"connection", collection>>), handle |-> collection]

\* get_list that lists every record by its _id.
get_list_ids(ctx, args) ==
  IF Len(args) # 1 THEN TypeError(ctx)
  ELSE LET gc == get_collection(Logged(ctx, <<"get_list", args[1]>>), args[1])
           cur == find(gc.ctx.store, gc.handle)
       IN Return(Logged(gc.ctx, <<"find", gc.handle>>),
                 jsonify(PyList([i \in 1..Len(cur) |-> cur[i]["_id"]])))

\* The body of get_list(self, collection).
get_list_fxn(ctx, args) ==
  IF Len(args) # 1 THEN TypeError(ctx)
  ELSE LET env_name == args[1]
           gc == get_collection(Logged(ctx, <<"get_list", env_name>>), env_name)
           cur == find(gc.ctx.store, gc.handle)
       IN Return(Logged(gc.ctx, <<"find", gc.handle>>),
                 jsonify(PyList([i \in 1..Len(cur) |->
                                   DictGet(cur[i], "app", cur[i]["_id"])])))

\* get_detail without data.pop('_id', None).
get_detail_keeps_id(ctx, args) ==
  IF Len(args) # 2 THEN TypeError(ctx)
  ELSE LET gc == get_collection(Logged(ctx, <<"get_detail", args[1], args[2]>>),
                                args[1])
           found == find_one(gc.ctx.store, gc.handle, args[2])
           data0 == IF found # None THEN found[1] ELSE EmptyDict
       IN Return(Logged(gc.ctx, <<"find_one", gc.handle, args[2]>>),
                 jsonify(PyDict(DictUpdate(data0, "env", args[1]))))

\* The body of get_detail(self, collection, pk).
get_detail_fxn(ctx, args) ==
  IF Len(args) # 2 THEN TypeError(ctx)
  ELSE LET app_name == args[2]
           env_name == args[1]
           gc == get_collection(
                   Logged(ctx, <<"get_detail", env_name, app_name>>), env_name)
           found == find_one(gc.ctx.store, gc.handle, app_name)
           c2 == Logged(gc.ctx, <<"find_one", gc.handle, app_name>>)
           data0 == IF found # None THEN found[1] ELSE EmptyDict
           data1 == DictPop(data0, "_id")
           data2 == DictUpdate(data1, "env", env_name)
       IN IF Truthy(data2)
          THEN Return(c2, jsonify(PyDict(data2)))
          ELSE Return(c2, jsonify(PyDict(EmptyDict)))

\* fxn(*args, **kargs) for the two decorated functions.
Fxn(name, ctx, args) ==
  IF name = "get_list" THEN get_list_fxn(ctx, args)
  ELSE get_detail_fxn(ctx, args)

\* check_auth that runs fxn whatever the key.
check_auth_open(name, ctx, args) == Fxn(name, Logged(ctx, <<"check_auth">>), args)

\* check_auth that tells an unknown environment before it rejects the key.
check_auth_env_first(name, ctx, args) ==
  LET c0 == Logged(ctx, <<"check_auth">>)
  IN IF ctx.key = Some(MASTER_PASS) THEN Fxn(name, c0, args)
     ELSE IF args[1] \notin collections
          THEN Return(c0, error404(Some("invalid environment")))
          ELSE Return(c0, error401(None))

\* check_auth(fxn): newf(*args, **kargs)
check_auth(name, ctx, args) ==
  LET c0 == Logged(ctx, <<"check_auth">>)
  IN IF ctx.key = Some(MASTER_PASS)
     THEN Fxn(name, c0, args)
     ELSE Return(c0, error401(None))

\* @check_auth def get_list / @check_auth def get_detail
get_list(ctx, args) == check_auth("get_list", ctx, args)
get_detail(ctx, args) == check_auth("get_detail", ctx, args)

\* ------------------------------------------------------------- requests
\* The list route supplies (collection), the detail route (collection, pk).
RouteArgs(r) ==
  IF r.route = "list" THEN <<r.env>> ELSE <<r.env, r.app[1]>>

ListReq(verb, env, key) ==
  [app |-> None, env |-> env, key |-> key, route |-> "list", verb |-> verb]

DetailReq(verb, env, app, key) ==
  [app |-> Some(app), env |-> env, key |-> key, route |-> "detail", verb |-> verb]

NoReq == [app |-> None, env |-> "-", key |-> None, route |-> "-", verb |-> "-"]
NoResp == [body |-> [type |-> "none"], status |-> 0]

\* The handler of a request, run on store st.
Serve(st, r) ==
  LET ctx == Ctx(st, r.key)
      args == RouteArgs(r)
  IN CASE r.verb = "GET" /\ r.route = "list" -> get_list(ctx, args)
       [] r.verb = "GET" /\ r.route = "detail" -> get_detail(ctx, args)
       [] r.verb = "POST" -> post_list(ctx, args)
       [] r.verb = "PUT" -> put_detail(ctx, args)
       [] r.verb = "PATCH" -> patch_detail(ctx, args)
       [] OTHER -> delete_detail(ctx, args)

Init ==
  /\ store \in Stores
  /\ req = NoReq
  /\ resp = NoResp
  /\ log = <<>>

\* Each request is received, handled and rendered in one step.

\* GET /{env}
GetList ==
  \E e \in EnvNames, k \in Keys :
    LET r == ListReq("GET", e, k)
        out == Serve(store, r)
    IN /\ req = NoReq
       /\ req' = r
       /\ store' = out.store
       /\ resp' = [body |-> out.body, status |-> out.status]
       /\ log' = out.log

\* GET /{env}/{app}
GetDetail ==
  \E e \in EnvNames, a \in AppNames, k \in Keys :
    LET r == DetailReq("GET", e, a, k)
        out == Serve(store, r)
    IN /\ req = NoReq
       /\ req' = r
       /\ store' = out.store
       /\ resp' = [body |-> out.body, status |-> out.status]
       /\ log' = out.log

\* POST /{env}
PostList ==
  \E e \in EnvNames, k \in Keys :
    LET r == ListReq("POST", e, k)
        out == Serve(store, r)
    IN /\ req = NoReq
       /\ req' = r
       /\ store' = out.store
       /\ resp' = [body |-> out.body, status |-> out.status]
       /\ log' = out.log

\* PUT /{env}/{app}
PutDetail ==
  \E e \in EnvNames, a \in AppNames, k \in Keys :
    LET r == DetailReq("PUT", e, a, k)
        out == Serve(store, r)
    IN /\ req = NoReq
       /\ req' = r
       /\ store' = out.store
       /\ resp' = [body |-> out.body, status |-> out.status]
       /\ log' = out.log

\* PATCH /{env}/{app}
PatchDetail ==
  \E e \in EnvNames, a \in AppNames, k \in Keys :
    LET r == DetailReq("PATCH", e, a, k)
        out == Serve(store, r)
    IN /\ req = NoReq
       /\ req' = r
       /\ store' = out.store
       /\ resp' = [body |-> out.body, status |-> out.status]
       /\ log' = out.log

\* DELETE /{env}/{app}
DeleteDetail ==
  \E e \in EnvNames, a \in AppNames, k \in Keys :
    LET r == DetailReq("DELETE", e, a, k)
        out == Serve(store, r)
    IN /\ req = NoReq
       /\ req' = r
       /\ store' = out.store
       /\ resp' = [body |-> out.body, status |-> out.status]
       /\ log' = out.log

\* The response is sent and the request-scoped state is dropped.
Reply ==
  /\ req # NoReq
  /\ req' = NoReq
  /\ resp' = NoResp
  /\ log' = <<>>
  /\ UNCHANGED store

Next ==
  \/ GetList
  \/ GetDetail
  \/ PostList
  \/ PutDetail
  \/ PatchDetail
  \/ DeleteDetail
  \/ Reply

Spec == Init /\ [][Next]_vars

\* ============================================================== claims
Secret == Some(MASTER_PASS)
IsGet == req.verb = "GET"
IsWrite == req.verb \in {"POST", "PUT", "PATCH", "DELETE"}

\* Some call of one of the given kinds was made while serving the request.
Called(kinds) == \E i \in 1..Len(log) : log[i][1] \in kinds

\* b is a JSON object with exactly the fields error = code and text = text.
IsErrorBody(b, code, text) ==
  /\ DOMAIN b = {"ctype", "json"}
  /\ b.json.type = "object"
  /\ DOMAIN b.json.fields = {"error", "text"}
  /\ b.json.fields.error = code
  /\ b.json.fields.text = text

\* The positions of the records of partition e whose app is a.
Matches(e, a) ==
  {i \in 1..Len(store[e]) : "app" \in DOMAIN store[e][i] /\ store[e][i].app = a}

\* C1: a GET on the list or the detail endpoint whose key is absent or not
\* the secret is answered with {"error": 401, "text": "Unauthorized"}; the
\* wrapped handler is not invoked and no storage call is made.
C1_UnauthorizedGetRejected ==
  (IsGet /\ req.key # Secret) =>
    /\ resp.body = [ctype |-> "application/json",
                    json |-> [fields |-> [error |-> 401, text |-> "Unauthorized"],
                              type |-> "object"]]
    /\ ~Called({"get_list", "get_detail", "get_collection", "connection",
                "find", "find_one"})

\* An unauthenticated detail GET for an application that is stored.
C1_Witness ==
  /\ IsGet /\ req.route = "detail" /\ req.key = None
  /\ req.env \in collections
  /\ Matches(req.env, req.app[1]) # {}
  /\ log = << <<"check_auth">> >>

\* C2: a GET with the correct secret on an environment outside
\* {dev, test, prod} is answered with the 404 JSON body, no collection
\* handle is produced and neither find nor find_one is called.
C2_UnknownEnvNotFound ==
  (IsGet /\ req.key = Secret /\ req.env \notin collections) =>
    /\ IsErrorBody(resp.body, 404, "invalid environment")
    /\ ~Called({"connection", "find", "find_one"})

\* C3: an authorized detail GET on a permitted environment holding no
\* record of that application is answered 200 with the empty object.
C3_MissingAppEmptyObject ==
  (/\ IsGet /\ req.route = "detail" /\ req.key = Secret
   /\ req.env \in collections
   /\ Matches(req.env, req.app[1]) = {}) =>
    /\ resp.status = 200
    /\ resp.body = [ctype |-> "application/json",
                    json |-> [fields |-> EmptyDict, type |-> "object"]]

C5_ListInStorageOrder ==
  (IsGet /\ req.route = "list" /\ req.key = Secret /\ req.env \in collections) =>
    /\ resp.body.json.type = "array"
    /\ Len(resp.body.json.items) = Len(store[req.env])
    /\ \A i \in 1..Len(store[req.env]) :
         resp.body.json.items[i] =
           IF "app" \in DOMAIN store[req.env][i]
           THEN store[req.env][i].app
           ELSE store[req.env][i]._id

\* An authorized list GET over two records, the first of them without app.
C5_Witness ==
  /\ IsGet /\ req.route = "list" /\ req.key = Secret
  /\ req.env \in collections
  /\ Len(store[req.env]) = 2
  /\ "app" \notin DOMAIN store[req.env][1]
  /\ "app" \in DOMAIN store[req.env][2]
  /\ resp.body.json.type = "array"

\* C6: every PUT, POST, PATCH or DELETE, whatever its key, ends in the one
\* 'not implemented' failure, without the auth gate or a storage call.
C6_WritesNotImplemented ==
  IsWrite =>
    /\ resp = [body |-> [text |-> "not implemented", type |-> "HTTPError"],
               status |-> 500]
    /\ log = <<>>

\* C7: no request of any verb, route or key changes a partition.
C7_StoreUnchanged == [][store' = store]_vars

\* A write request carrying the secret, on a partition that holds records.
C7_Witness ==
  /\ IsWrite /\ req.route = "detail" /\ req.key = Secret
  /\ Len(store[req.env]) > 0
  /\ resp.status = 500

\* Every GET a client can send without the secret.
UnauthorizedGets ==
  {ListReq("GET", e, k) : e \in EnvNames, k \in Keys \ {Secret}}
    \cup {DetailReq("GET", e, a, k) :
            e \in EnvNames, a \in AppNames, k \in Keys \ {Secret}}

\* C8: the complete response to a GET without the secret is the response
\* to any other such GET on an empty store, hence the same for every
\* environment, application and store.
C8_UnauthorizedResponseUniform ==
  (IsGet /\ req.key # Secret) =>
    \A r2 \in UnauthorizedGets :
      LET o == Serve(EmptyStore, r2)
      IN resp = [body |-> o.body, status |-> o.status]

\* A GET with a wrong key on an unknown environment that holds records.
C8_Witness ==
  /\ IsGet /\ req.key = Some("wrong")
  /\ req.env \notin collections
  /\ Len(store[req.env]) > 0
  /\ resp # NoResp

\* C9: every error outcome (auth failure, unknown environment, rejected
\* write verb) is a JSON object with exactly the fields error and text.
C9_ErrorsAreTwoFieldJson ==
  /\ (IsGet /\ req.key # Secret) => IsErrorBody(resp.body, 401, "Unauthorized")
  /\ (IsGet /\ req.key = Secret /\ req.env \notin collections) =>
       \E t \in {"Nothing here", "invalid environment"} :
         IsErrorBody(resp.body, 404, t)
  /\ IsWrite =>
       /\ DOMAIN resp.body = {"ctype", "json"}
       /\ resp.body.json.type = "object"
       /\ DOMAIN resp.body.json.fields = {"error", "text"}

\* C10: a GET is answered 401 without the secret, 404 with the secret on an
\* environment that is not permitted, and 200 otherwise.
C10_StatusMatchesOutcome ==
  IsGet =>
    resp.status = IF req.key # Secret THEN 401
                  ELSE IF req.env \notin collections THEN 404
                  ELSE 200

====
